---- MODULE Spec2Model ----
(***************************************************************************)
(* Assessment tracker of the Bioinformed skill app (app/crud/crud.py):     *)
(* initiation, reviewer selection and assignment, commit updates and       *)
(* approval of a trainee's assessment, with the per-entry audit log.       *)
(* Every action is one call of a crud function, run to completion against  *)
(* the store; a raised exception leaves the store as the last db.commit()  *)
(* left it.                                                                *)
(***************************************************************************)
EXTENDS Integers, Sequences, FiniteSets, TLC

\* ---- bounds of the model ------------------------------------------------
\* number of successful store mutations in one behaviour (the clock's range)
MaxClock == 4
\* largest number of rows of the reviewers table
MaxReviewers == 3

\* ---- reference data (tables the tracker code only reads) -----------------
\* the users table: id and username are both unique
Users ==
    << [id |-> 1, username |-> "alice"],
       [id |-> 2, username |-> "bob"] >>

\* the assessments table
Assessments ==
    << [id |-> 1, name |-> "Python I"] >>

\* the reviewers table of the tracker's behaviours: user_id refers to users.id
Reviewers ==
    << [id |-> 1, user_id |-> 1],
       [id |-> 2, user_id |-> 2] >>

\* names an init request may carry: the stored ones and one that is not stored
AssessmentNames == {"Python I", "Perl I"}

\* usernames an approval request may carry
Usernames == {"alice", "bob"}

\* commit hashes of the requests
Commits == {"abc123", "def456"}

\* Python's None in the nullable column reviewer_id
None == 0

\* ---- messages of the exceptions the code raises ---------------------------
ErrAssessmentMissing == "Assessment does not exist"
ErrUnavailable == "Assessment tracker entry unavailable."
ErrAlreadyExists == "Assessment tracker entry already exists."
ErrNoReviewerAvailable == "No reviewer available. Please contact the administrator."
ErrSelfReview == "Reviewer cannot be the same as the trainee."
ErrNoReviewerAssigned == "No reviewer is assigned to the assessment."
ErrNotUnderReview == "Assessment is not under review."
ErrChecksFailed == "Last commit checks failed."
ErrReviewerMismatch == "Reviewer is not the same as the reviewer assigned to the assessment."
\* raised by db.commit() when a unique constraint of the schema is violated
ErrIntegrity == "IntegrityError"
Ok == "True"

VARIABLES
    reviewers,  \* the reviewers table: a sequence of rows [id, user_id]
    tracker,    \* the assessment_tracker table: row i has id i
    now,        \* datetime.utcnow(), a logical clock
    ret,        \* the last call: its name, its outcome and the entry it addressed
    done,       \* history: done[i] lists the calls that succeeded on entry i
    catalog,    \* the badge records the external catalog returns, in its order
    badges,     \* the badges table: rows in insertion order
    assertions, \* the assertions table: rows in insertion order
    pending     \* the calls in flight: each record holds what its session read so far

vars == <<reviewers, tracker, now, ret, done, catalog, badges, assertions, pending>>

\* the tables of the credential reconciler and the catalog it reads
credentials == <<catalog, badges, assertions>>

\* ---- dicts ---------------------------------------------------------------
\* d[k] = v of a Python dict: the key is added or overwritten
DictSet(d, k, v) ==
    [x \in (DOMAIN d) \cup {k} |-> IF x = k THEN v ELSE d[x]]

\* log payloads an update request may carry (UpdateRequest.log)
ExtraFields == { [checks |-> "passed"] }

\* str(datetime)
Str(t) == ToString(t)

\* ---- lookups -------------------------------------------------------------
\* .first() of a query: the lowest of the matching row indexes, 0 (no row) if none
First(hits) ==
    IF hits = {} THEN 0 ELSE CHOOSE i \in hits : \A j \in hits : i <= j

get_user_by_id(user_id) ==
    First({i \in DOMAIN Users : Users[i].id = user_id})

get_reviewer_by_id(revs, reviewer_id) ==
    First({i \in DOMAIN revs : revs[i].id = reviewer_id})

get_assessment_by_name(assessment_name) ==
    First({i \in DOMAIN Assessments : Assessments[i].name = assessment_name})

get_assessment_tracker_entry(t, user_id, assessment_id) ==
    First({i \in DOMAIN t : /\ t[i].user_id = user_id
                            /\ t[i].assessment_id = assessment_id})

get_assessment_tracker_entry_by_id(t, entry_id) ==
    First({i \in DOMAIN t : i = entry_id})

\* ---- the store's schema --------------------------------------------------
\* variant: the column declared without unique=True
UniqueLatestCommit_none(t) ==
    TRUE

\* latest_commit = Column(String, nullable=False, unique=True): db.commit() of
\* table t is accepted iff no two rows carry the same latest_commit
UniqueLatestCommit(t) ==
    \A i, j \in DOMAIN t : t[i].latest_commit = t[j].latest_commit => i = j

TypeOK ==
    /\ now \in 0..MaxClock
    /\ Len(tracker) = Len(done)

\* The tracker's behaviours are explored over one reviewers table, in which
\* each of the two users has a reviewer record.
Init ==
    /\ reviewers = Reviewers
    /\ tracker = <<>>
    /\ now = 0
    /\ ret = [op |-> "start", err |-> Ok, entry_id |-> 0]
    /\ done = <<>>
    /\ catalog = <<>>
    /\ badges = <<>>
    /\ assertions = <<>>
    /\ pending = <<>>

\* ---- init_assessment_tracker ---------------------------------------------
\* the row init_assessment_tracker builds, stamped at time ts
NewEntry(user_id, assessment_id, latest_commit, ts) ==
    [user_id |-> user_id,
     assessment_id |-> assessment_id,
     reviewer_id |-> None,
     latest_commit |-> latest_commit,
     last_updated |-> ts,
     status |-> "Initiated",
     log |-> << [status |-> "Initiated",
                 timestamp |-> Str(ts),
                 commit |-> latest_commit] >>]

\* variant: an existing entry is silently updated with the request's commit
InitOutcome_upsert(t, user_id, assessment_name, latest_commit, ts) ==
    LET a == get_assessment_by_name(assessment_name)
        found == get_assessment_tracker_entry(t, user_id, Assessments[a].id)
        added == Append(t, NewEntry(user_id, Assessments[a].id, latest_commit, ts))
        upd == [t EXCEPT ![found].latest_commit = latest_commit]
    IN  IF a = 0 THEN [err |-> ErrAssessmentMissing, t |-> t]
        ELSE IF found # 0
        THEN IF UniqueLatestCommit(upd) THEN [err |-> ErrAlreadyExists, t |-> upd]
             ELSE [err |-> ErrIntegrity, t |-> t]
        ELSE IF ~UniqueLatestCommit(added) THEN [err |-> ErrIntegrity, t |-> t]
        ELSE [err |-> Ok, t |-> added]

\* variant: the entry is created without looking for an existing one
InitOutcome_nocheck(t, user_id, assessment_name, latest_commit, ts) ==
    LET a == get_assessment_by_name(assessment_name)
        added == Append(t, NewEntry(user_id, Assessments[a].id, latest_commit, ts))
    IN  IF a = 0 THEN [err |-> ErrAssessmentMissing, t |-> t]
        ELSE IF ~UniqueLatestCommit(added) THEN [err |-> ErrIntegrity, t |-> t]
        ELSE [err |-> Ok, t |-> added]

\* the outcome of init_assessment_tracker on table t: the exception's message
\* (or Ok) and the table as committed
InitOutcome(t, user_id, assessment_name, latest_commit, ts) ==
    LET a == get_assessment_by_name(assessment_name)
        found == get_assessment_tracker_entry(t, user_id, Assessments[a].id)
        \* try: get ... ; raise ValueError("... already exists.")
        e == IF found # 0 THEN ErrAlreadyExists ELSE ErrUnavailable
        added == Append(t, NewEntry(user_id, Assessments[a].id, latest_commit, ts))
    IN  IF a = 0 THEN [err |-> ErrAssessmentMissing, t |-> t]
        ELSE IF e # ErrUnavailable THEN [err |-> e, t |-> t]
        ELSE IF ~UniqueLatestCommit(added) THEN [err |-> ErrIntegrity, t |-> t]
        ELSE [err |-> Ok, t |-> added]

init_assessment_tracker(user_id, assessment_name, latest_commit) ==
    LET out == InitOutcome(tracker, user_id, assessment_name, latest_commit, now + 1)
    IN  /\ ret' = [op |-> "Initiate", err |-> out.err,
                   entry_id |-> IF out.err = Ok THEN Len(out.t) ELSE 0]
        /\ IF out.err = Ok
           THEN /\ now < MaxClock
                /\ tracker' = out.t
                /\ done' = Append(done, <<"Initiate">>)
                /\ now' = now + 1
           ELSE UNCHANGED <<tracker, now, done>>
        /\ UNCHANGED reviewers

\* ---- select_reviewer -----------------------------------------------------
\* variant: only the trainee's first reviewer record is excluded (.first() for .all())
ValidReviewers_first(revs, entry) ==
    LET own == {j \in DOMAIN revs : revs[j].user_id = entry.user_id}
        invalid_rev == IF own = {} THEN {} ELSE {revs[First(own)].id}
    IN  {revs[i].id : i \in {j \in DOMAIN revs : revs[j].id \notin invalid_rev}}

\* variant: no reviewer is excluded
ValidReviewers_all(revs, entry) ==
    {revs[i].id : i \in DOMAIN revs}

\* ids of the reviewers select_reviewer draws from for the entry
ValidReviewers(revs, entry) ==
    LET invalid_rev == {revs[i].id : i \in {j \in DOMAIN revs : revs[j].user_id = entry.user_id}}
    IN  {revs[i].id : i \in {j \in DOMAIN revs : revs[j].id \notin invalid_rev}}

\* random.randint picks any index of valid_reviewers; an empty list raises
select_reviewer(entry_id) ==
    LET valid_reviewers == ValidReviewers(reviewers, tracker[entry_id])
    IN  /\ IF valid_reviewers = {}
           THEN ret' = [op |-> "SelectReviewer", err |-> ErrNoReviewerAvailable,
                        entry_id |-> entry_id]
           ELSE \E random_id \in valid_reviewers :
                   ret' = [op |-> "SelectReviewer", err |-> Ok,
                           entry_id |-> entry_id,
                           reviewer |-> reviewers[get_reviewer_by_id(reviewers, random_id)]]
        /\ UNCHANGED <<reviewers, tracker, now, done>>

\* ---- update_assessment_log -----------------------------------------------
\* variant: the update also puts the entry under review
UpdateOutcome_status(t, entry_id, latest_commit, update_logs, ts) ==
    LET i == get_assessment_tracker_entry_by_id(t, entry_id)
        rec == DictSet(DictSet(update_logs, "commit", latest_commit),
                       "timestamp", Str(ts))
        upd == [t EXCEPT ![i].last_updated = ts,
                         ![i].latest_commit = latest_commit,
                         ![i].status = "Under review",
                         ![i].log = Append(@, rec)]
    IN  IF i = 0 THEN [err |-> ErrUnavailable, t |-> t]
        ELSE IF ~UniqueLatestCommit(upd) THEN [err |-> ErrIntegrity, t |-> t]
        ELSE [err |-> Ok, t |-> upd]

\* the outcome of update_assessment_log on table t at time ts
UpdateOutcome(t, entry_id, latest_commit, update_logs, ts) ==
    LET i == get_assessment_tracker_entry_by_id(t, entry_id)
        rec == DictSet(DictSet(update_logs, "commit", latest_commit),
                       "timestamp", Str(ts))
        upd == [t EXCEPT ![i].last_updated = ts,
                         ![i].latest_commit = latest_commit,
                         ![i].log = Append(@, rec)]
    IN  IF i = 0 THEN [err |-> ErrUnavailable, t |-> t]
        ELSE IF ~UniqueLatestCommit(upd) THEN [err |-> ErrIntegrity, t |-> t]
        ELSE [err |-> Ok, t |-> upd]

update_assessment_log(entry_id, latest_commit, update_logs) ==
    LET out == UpdateOutcome(tracker, entry_id, latest_commit, update_logs, now + 1)
    IN  /\ ret' = [op |-> "UpdateCommit", err |-> out.err, entry_id |-> entry_id]
        /\ IF out.err = Ok
           THEN /\ now < MaxClock
                /\ tracker' = out.t
                /\ done' = [done EXCEPT ![entry_id] = Append(@, "UpdateCommit")]
                /\ now' = now + 1
           ELSE UNCHANGED <<tracker, now, done>>
        /\ UNCHANGED reviewers

\* ---- assign_reviewer -----------------------------------------------------
\* variant: assign_reviewer without its call of update_assessment_log
AssignOutcome_nolog(t, entry_id, reviewer_info, ts) ==
    [err |-> Ok,
     t |-> [t EXCEPT ![entry_id].reviewer_id = reviewer_info.reviewer_id,
                     ![entry_id].status = "Under review",
                     ![entry_id].last_updated = ts]]

\* variant: assign_reviewer writes the status and not the reviewer
AssignOutcome_statusOnly(t, entry_id, reviewer_info, ts) ==
    LET first == [t EXCEPT ![entry_id].status = "Under review",
                           ![entry_id].last_updated = ts]
    IN  UpdateOutcome(first, entry_id, first[entry_id].latest_commit, reviewer_info, ts)

\* the table after assign_reviewer: the first commit writes reviewer_id and
\* status, then update_assessment_log appends the copied reviewer_info
AssignOutcome(t, entry_id, reviewer_info, ts) ==
    LET first == [t EXCEPT ![entry_id].reviewer_id = reviewer_info.reviewer_id,
                           ![entry_id].status = "Under review",
                           ![entry_id].last_updated = ts]
    IN  UpdateOutcome(first, entry_id, first[entry_id].latest_commit, reviewer_info, ts)

assign_reviewer(entry_id, reviewer_info) ==
    LET out == AssignOutcome(tracker, entry_id, reviewer_info, now + 1)
    IN  /\ now < MaxClock
        /\ tracker' = out.t
        /\ done' = [done EXCEPT ![entry_id] = Append(@, "AssignReviewer")]
        /\ now' = now + 1
        /\ ret' = [op |-> "AssignReviewer", err |-> out.err, entry_id |-> entry_id]
        /\ UNCHANGED reviewers

\* the reviewer_info dict of a reviewer row: its id and its user's username
ReviewerInfo(r) ==
    [reviewer_id |-> r.id,
     reviewer_username |-> Users[get_user_by_id(r.user_id)].username]

\* ---- approve_assessment --------------------------------------------------
\* variant: the entry is looked up before the reviewer is compared with the trainee
ApproveCheck_lookupFirst(t, revs, trainee, reviewer, reviewer_username, assessment, passed) ==
    LET i == get_assessment_tracker_entry(t, trainee.id, assessment.id)
        reviewer_real == revs[get_reviewer_by_id(revs, t[i].reviewer_id)]
        reviewer_real_user == Users[get_user_by_id(reviewer_real.user_id)]
    IN  IF i = 0 THEN ErrUnavailable
        ELSE IF reviewer.user_id = trainee.id THEN ErrSelfReview
        ELSE IF t[i].reviewer_id = None THEN ErrNoReviewerAssigned
        ELSE IF t[i].status # "Under review" THEN ErrNotUnderReview
        ELSE IF ~passed THEN ErrChecksFailed
        ELSE IF reviewer_real_user.username # reviewer_username THEN ErrReviewerMismatch
        ELSE Ok

\* variant: the status is checked before the assigned reviewer
ApproveCheck_statusFirst(t, revs, trainee, reviewer, reviewer_username, assessment, passed) ==
    LET i == get_assessment_tracker_entry(t, trainee.id, assessment.id)
        reviewer_real == revs[get_reviewer_by_id(revs, t[i].reviewer_id)]
        reviewer_real_user == Users[get_user_by_id(reviewer_real.user_id)]
    IN  IF reviewer.user_id = trainee.id THEN ErrSelfReview
        ELSE IF i = 0 THEN ErrUnavailable
        ELSE IF t[i].status # "Under review" THEN ErrNotUnderReview
        ELSE IF t[i].reviewer_id = None THEN ErrNoReviewerAssigned
        ELSE IF ~passed THEN ErrChecksFailed
        ELSE IF reviewer_real_user.username # reviewer_username THEN ErrReviewerMismatch
        ELSE Ok

\* variant: reviewer_username is compared with the username of the reviewer passed in
ApproveCheck_passedName(t, revs, trainee, reviewer, reviewer_username, assessment, passed) ==
    LET i == get_assessment_tracker_entry(t, trainee.id, assessment.id)
        reviewer_user == Users[get_user_by_id(reviewer.user_id)]
    IN  IF reviewer.user_id = trainee.id THEN ErrSelfReview
        ELSE IF i = 0 THEN ErrUnavailable
        ELSE IF t[i].reviewer_id = None THEN ErrNoReviewerAssigned
        ELSE IF t[i].status # "Under review" THEN ErrNotUnderReview
        ELSE IF ~passed THEN ErrChecksFailed
        ELSE IF reviewer_user.username # reviewer_username THEN ErrReviewerMismatch
        ELSE Ok

\* the first check of approve_assessment that fails on table t, Ok if none does;
\* passed is what utils.verify_check answers for the entry
ApproveCheck(t, revs, trainee, reviewer, reviewer_username, assessment, passed) ==
    LET i == get_assessment_tracker_entry(t, trainee.id, assessment.id)
        reviewer_real == revs[get_reviewer_by_id(revs, t[i].reviewer_id)]
        reviewer_real_user == Users[get_user_by_id(reviewer_real.user_id)]
    IN  IF reviewer.user_id = trainee.id THEN ErrSelfReview
        ELSE IF i = 0 THEN ErrUnavailable
        ELSE IF t[i].reviewer_id = None THEN ErrNoReviewerAssigned
        ELSE IF t[i].status # "Under review" THEN ErrNotUnderReview
        ELSE IF ~passed THEN ErrChecksFailed
        ELSE IF reviewer_real_user.username # reviewer_username THEN ErrReviewerMismatch
        ELSE Ok

\* variant: the log credits the reviewer recorded on the entry
ApproveWrite_recorded(t, trainee, reviewer, assessment, ts) ==
    LET i == get_assessment_tracker_entry(t, trainee.id, assessment.id)
        log == [timestamp |-> Str(ts),
                status |-> "Approved",
                commit |-> t[i].latest_commit,
                Reviewer |-> t[i].reviewer_id]
    IN  [t EXCEPT ![i].status = "Approved",
                  ![i].last_updated = ts,
                  ![i].log = Append(@, log)]

\* the table after the approval is committed at time ts
ApproveWrite(t, trainee, reviewer, assessment, ts) ==
    LET i == get_assessment_tracker_entry(t, trainee.id, assessment.id)
        latest_commit == t[i].latest_commit
        log == [timestamp |-> Str(ts),
                status |-> "Approved",
                commit |-> latest_commit,
                Reviewer |-> reviewer.id]
    IN  [t EXCEPT ![i].status = "Approved",
                  ![i].last_updated = ts,
                  ![i].log = Append(@, log)]

approve_assessment(trainee, reviewer, reviewer_username, assessment, passed) ==
    LET err == ApproveCheck(tracker, reviewers, trainee, reviewer,
                            reviewer_username, assessment, passed)
        i == get_assessment_tracker_entry(tracker, trainee.id, assessment.id)
    IN  /\ ret' = [op |-> "Approve", err |-> err, entry_id |-> i]
        /\ IF err = Ok
           THEN /\ now < MaxClock
                /\ tracker' = ApproveWrite(tracker, trainee, reviewer, assessment, now + 1)
                /\ done' = [done EXCEPT ![i] = Append(@, "Approve")]
                /\ now' = now + 1
           ELSE UNCHANGED <<tracker, now, done>>
        /\ UNCHANGED reviewers

\* ---- the calls the API layer can make ------------------------------------
Initiate ==
    \E u \in {Users[i].id : i \in DOMAIN Users}, n \in AssessmentNames, c \in Commits :
        init_assessment_tracker(u, n, c) /\ UNCHANGED <<credentials, pending>>

SelectReviewer ==
    \E e \in DOMAIN tracker : select_reviewer(e) /\ UNCHANGED <<credentials, pending>>

AssignReviewer ==
    \E e \in DOMAIN tracker, r \in DOMAIN reviewers :
        assign_reviewer(e, ReviewerInfo(reviewers[r])) /\ UNCHANGED <<credentials, pending>>

UpdateCommit ==
    \E e \in 1..(Len(tracker) + 1), c \in Commits, x \in ExtraFields :
        update_assessment_log(e, c, x) /\ UNCHANGED <<credentials, pending>>

Approve ==
    \E t \in DOMAIN Users, r \in DOMAIN reviewers, n \in Usernames,
       a \in DOMAIN Assessments, passed \in BOOLEAN :
        approve_assessment(Users[t], reviewers[r], n, Assessments[a], passed)
           /\ UNCHANGED <<credentials, pending>>

Next ==
    \/ Initiate
    \/ SelectReviewer
    \/ AssignReviewer
    \/ UpdateCommit
    \/ Approve

Spec == Init /\ [][Next]_vars

\* ---- select_reviewer over every reviewers table --------------------------
\* every table of at most MaxReviewers rows over the users, the empty one included
SelectInit ==
    /\ \E n \in 0..MaxReviewers :
          \E f \in [1..n -> {Users[i].id : i \in DOMAIN Users}] :
             reviewers = [i \in 1..n |-> [id |-> i, user_id |-> f[i]]]
    /\ tracker = <<>>
    /\ now = 0
    /\ ret = [op |-> "start", err |-> Ok, entry_id |-> 0]
    /\ done = <<>>
    /\ catalog = <<>>
    /\ badges = <<>>
    /\ assertions = <<>>
    /\ pending = <<>>

SelectNext ==
    \/ Initiate
    \/ SelectReviewer

SpecSelect == SelectInit /\ [][SelectNext]_vars

\* ==== properties ==========================================================
\* position of a status on the path Initiated -> Under review -> Approved
Rank(status) ==
    CASE status = "Initiated" -> 1
      [] status = "Under review" -> 2
      [] status = "Approved" -> 3

UserIds == {Users[i].id : i \in DOMAIN Users}

\* the entry of the pair (user, assessment name), 0 if the name or the entry is missing
EntryOf(u, n) ==
    IF get_assessment_by_name(n) = 0 THEN 0
    ELSE get_assessment_tracker_entry(tracker, u, Assessments[get_assessment_by_name(n)].id)

\* C1: no call moves the status of an entry backward along
\* Initiated -> Under review -> Approved.
C1_StatusNeverMovesBack ==
    [][\A i \in DOMAIN tracker :
          Rank(tracker'[i].status) >= Rank(tracker[i].status)]_vars

\* C2: an Initiate call for a pair that already has an entry fails with
\* "already exists" whatever commit it carries, and the table (so the entry's
\* status, latest_commit, reviewer_id and log, and the number of entries) is unchanged.
C2_ReinitiateRejected ==
    [][ret'.op = "Initiate" =>
          \A u \in UserIds, n \in AssessmentNames, c \in Commits :
             (EntryOf(u, n) # 0 /\ init_assessment_tracker(u, n, c))
                => (ret'.err = ErrAlreadyExists /\ tracker' = tracker)]_vars

\* a second Initiate was refused on a pair whose entry carries another state than at creation
C2_Witness ==
    /\ ret.op = "Initiate"
    /\ ret.err = ErrAlreadyExists
    /\ \E i \in DOMAIN tracker : tracker[i].status = "Under review"

\* C3: a reviewer returned by select_reviewer is never a reviewer record of the
\* entry's trainee, for every reviewers table.
C3_SelectedIsNotTrainee ==
    (ret.op = "SelectReviewer" /\ ret.err = Ok)
       => ret.reviewer.user_id # tracker[ret.entry_id].user_id

\* a reviewer was returned for a trainee who has two reviewer records of their own
C3_Witness ==
    /\ ret.op = "SelectReviewer"
    /\ ret.err = Ok
    /\ Cardinality({i \in DOMAIN reviewers :
                      reviewers[i].user_id = tracker[ret.entry_id].user_id}) >= 2

\* C4: Approve with a reviewer whose user is the trainee fails with the
\* self-review error in every state of the table and changes nothing.
C4_SelfReviewAlwaysRejected ==
    [][ret'.op = "Approve" =>
          \A t \in DOMAIN Users, r \in DOMAIN reviewers, n \in Usernames,
             a \in DOMAIN Assessments, passed \in BOOLEAN :
             (/\ reviewers[r].user_id = Users[t].id
              /\ approve_assessment(Users[t], reviewers[r], n, Assessments[a], passed))
                => (ret'.err = ErrSelfReview /\ tracker' = tracker)]_vars

\* a self-review was refused on a pair whose entry is already approved
C4_Witness ==
    /\ ret.op = "Approve"
    /\ ret.err = ErrSelfReview
    /\ ret.entry_id # 0
    /\ tracker[ret.entry_id].status = "Approved"

\* a self-review was refused on a pair that has no entry
C4_WitnessNoEntry ==
    /\ ret.op = "Approve"
    /\ ret.err = ErrSelfReview
    /\ ret.entry_id = 0

\* the username of the user behind the reviewer recorded on entry i
AssignedUsername(i) ==
    Users[get_user_by_id(
            reviewers[get_reviewer_by_id(reviewers, tracker[i].reviewer_id)].user_id)].username

\* C5: Approve by a reviewer who is not the trainee, on an entry under review
\* with a reviewer assigned and passing checks, fails with the mismatch error
\* when reviewer_username is not the assigned reviewer's username, and the
\* table is unchanged.
C5_MismatchRejectedUnchanged ==
    [][ret'.op = "Approve" =>
       \A t \in DOMAIN Users, r \in DOMAIN reviewers, n \in Usernames,
          a \in DOMAIN Assessments :
          LET i == get_assessment_tracker_entry(tracker, Users[t].id, Assessments[a].id)
          IN  (/\ reviewers[r].user_id # Users[t].id
               /\ i # 0
               /\ tracker[i].reviewer_id # None
               /\ tracker[i].status = "Under review"
               /\ AssignedUsername(i) # n
               /\ approve_assessment(Users[t], reviewers[r], n, Assessments[a], TRUE))
                 => (/\ ret'.err = ErrReviewerMismatch
                     /\ tracker' = tracker
                     /\ tracker'[i].status = "Under review")]_vars

\* an approval was refused for the username alone
C5_Witness ==
    /\ ret.op = "Approve"
    /\ ret.err = ErrReviewerMismatch
    /\ tracker[ret.entry_id].status = "Under review"

\* the call that wrote a log record, read from the keys the record carries
LogKind(rec) ==
    IF "Reviewer" \in DOMAIN rec THEN "Approve"
    ELSE IF "reviewer_id" \in DOMAIN rec THEN "AssignReviewer"
    ELSE IF "status" \in DOMAIN rec THEN "Initiate"
    ELSE "UpdateCommit"

\* log a extended by at most one record at its end
ExtendsByAtMostOne(a, b) ==
    /\ Len(b) \in {Len(a), Len(a) + 1}
    /\ SubSeq(b, 1, Len(a)) = a

\* C6: every successful Initiate, AssignReviewer, UpdateCommit or Approve adds
\* exactly one record at the end of the entry's log and leaves the earlier
\* records as they were, a failed call leaves the table unchanged, and after N
\* successful calls on an entry its log holds N records, one per call in call order.
C6_LogAppendOnly ==
    [][/\ \A i \in DOMAIN tracker :
             /\ i \in DOMAIN tracker'
             /\ ExtendsByAtMostOne(tracker[i].log, tracker'[i].log)
       /\ ret'.err # Ok => tracker' = tracker
       /\ (ret'.err = Ok /\ ret'.op \in {"AssignReviewer", "UpdateCommit", "Approve"})
             => /\ Len(tracker'[ret'.entry_id].log) = Len(tracker[ret'.entry_id].log) + 1
                /\ \A i \in DOMAIN tracker :
                      i # ret'.entry_id => tracker'[i] = tracker[i]
       /\ (ret'.err = Ok /\ ret'.op = "Initiate")
             => /\ tracker' = Append(tracker, tracker'[ret'.entry_id])
                /\ Len(tracker'[ret'.entry_id].log) = 1
       /\ \A i \in DOMAIN tracker' :
             /\ Len(tracker'[i].log) = Len(done'[i])
             /\ \A k \in DOMAIN done'[i] : LogKind(tracker'[i].log[k]) = done'[i][k]]_vars

\* an entry went through all four calls, the log holding one record for each
C6_Witness ==
    \E i \in DOMAIN tracker :
       /\ done[i] = <<"Initiate", "AssignReviewer", "UpdateCommit", "Approve">>
       /\ Len(tracker[i].log) = 4

\* C7: an Approve whose checks all pass (reviewer not the trainee, entry under
\* review with a reviewer assigned, commit checks passing, reviewer_username
\* that of the assigned reviewer) sets the status to Approved, keeps
\* latest_commit and reviewer_id, and appends one record with status Approved,
\* the entry's latest_commit and the id of the reviewer passed in; after
\* Initiate, AssignReviewer, Approve the log has grown 1, 2, 3.
C7_ApproveSuccess ==
    [][ret'.op = "Approve" =>
       \A t \in DOMAIN Users, r \in DOMAIN reviewers, n \in Usernames,
          a \in DOMAIN Assessments :
          LET i == get_assessment_tracker_entry(tracker, Users[t].id, Assessments[a].id)
          IN  (/\ reviewers[r].user_id # Users[t].id
               /\ i # 0
               /\ tracker[i].reviewer_id # None
               /\ tracker[i].status = "Under review"
               /\ AssignedUsername(i) = n
               /\ approve_assessment(Users[t], reviewers[r], n, Assessments[a], TRUE))
                 => (/\ ret'.err = Ok
                     /\ tracker'[i].status = "Approved"
                     /\ tracker'[i].latest_commit = tracker[i].latest_commit
                     /\ tracker'[i].reviewer_id = tracker[i].reviewer_id
                     /\ Len(tracker'[i].log) = Len(tracker[i].log) + 1
                     /\ SubSeq(tracker'[i].log, 1, Len(tracker[i].log)) = tracker[i].log
                     /\ LET rec == tracker'[i].log[Len(tracker'[i].log)]
                        IN  /\ rec.status = "Approved"
                            /\ rec.commit = tracker[i].latest_commit
                            /\ rec.Reviewer = reviewers[r].id
                     /\ done[i] = <<"Initiate", "AssignReviewer">>
                           => (Len(tracker[i].log) = 2 /\ Len(tracker'[i].log) = 3)
                     /\ \A j \in DOMAIN tracker : j # i => tracker'[j] = tracker[j])]_vars

\* the scenario Initiate, AssignReviewer, Approve has run on an entry
C7_Witness ==
    /\ ret.op = "Approve"
    /\ ret.err = Ok
    /\ done[ret.entry_id] = <<"Initiate", "AssignReviewer", "Approve">>
    /\ tracker[ret.entry_id].status = "Approved"

\* C8: there is never more than one entry for a (user_id, assessment_id) pair,
\* no call removes an entry or moves it to another pair, and a successful
\* Initiate leaves exactly one entry for its pair.
C8_OneEntryPerPair ==
    [][/\ \A i, j \in DOMAIN tracker' :
             (/\ tracker'[i].user_id = tracker'[j].user_id
              /\ tracker'[i].assessment_id = tracker'[j].assessment_id) => i = j
       /\ \A i \in DOMAIN tracker :
             /\ i \in DOMAIN tracker'
             /\ tracker'[i].user_id = tracker[i].user_id
             /\ tracker'[i].assessment_id = tracker[i].assessment_id
       /\ (ret'.op = "Initiate" /\ ret'.err = Ok)
             => \A u \in UserIds, n \in AssessmentNames, c \in Commits :
                   init_assessment_tracker(u, n, c)
                      => Cardinality({i \in DOMAIN tracker' :
                            /\ tracker'[i].user_id = u
                            /\ Assessments[get_assessment_by_name(n)].id
                                  = tracker'[i].assessment_id}) = 1]_vars

\* both pairs have their entry and a further Initiate was refused
C8_Witness ==
    /\ Len(tracker) = 2
    /\ ret.op = "Initiate"
    /\ ret.err = ErrAlreadyExists

\* C9: no two distinct entries carry the same latest_commit.
C9_LatestCommitUnique ==
    \A i, j \in DOMAIN tracker :
       i # j => tracker[i].latest_commit # tracker[j].latest_commit

\* an UpdateCommit to the commit of another entry was refused by the store
C9_Witness ==
    /\ Len(tracker) = 2
    /\ ret.op = "UpdateCommit"
    /\ ret.err = ErrIntegrity

\* an Initiate with the commit of another pair's entry was refused by the store
C9_WitnessInitiate ==
    /\ Len(tracker) = 1
    /\ ret.op = "Initiate"
    /\ ret.err = ErrIntegrity

\* C10: the reviewer recorded on an entry is never a reviewer record of the
\* entry's own user.
C10_ReviewerIsNotTrainee ==
    \A i \in DOMAIN tracker :
       tracker[i].reviewer_id # None
          => reviewers[get_reviewer_by_id(reviewers, tracker[i].reviewer_id)].user_id
                # tracker[i].user_id

\* C10, its last part: no entry is Approved with the trainee as its recorded reviewer.
C10_NoSelfApproved ==
    \A i \in DOMAIN tracker :
       tracker[i].status = "Approved"
          => reviewers[get_reviewer_by_id(reviewers, tracker[i].reviewer_id)].user_id
                # tracker[i].user_id

\* C11 as claimed: UpdateCommit on a missing id fails with "unavailable" and
\* changes nothing; on every existing entry it sets latest_commit to the given
\* commit and keeps status and reviewer_id.
C11_UpdateAlwaysSetsCommit ==
    [][ret'.op = "UpdateCommit" =>
       \A e \in 1..(Len(tracker) + 1), c \in Commits, x \in ExtraFields :
          update_assessment_log(e, c, x)
             => IF e \notin DOMAIN tracker
                THEN ret'.err = ErrUnavailable /\ tracker' = tracker
                ELSE /\ tracker'[e].latest_commit = c
                     /\ tracker'[e].status = tracker[e].status
                     /\ tracker'[e].reviewer_id = tracker[e].reviewer_id]_vars

\* C11 as amended: UpdateCommit on a missing id fails with "unavailable" and
\* changes nothing; on an existing entry, when another entry already carries
\* the given commit the store refuses the commit and nothing changes, and
\* otherwise latest_commit becomes the given commit while status and
\* reviewer_id stay as they were, whatever the status.
C11_UpdateFrame ==
    [][ret'.op = "UpdateCommit" =>
       \A e \in 1..(Len(tracker) + 1), c \in Commits, x \in ExtraFields :
          update_assessment_log(e, c, x)
             => IF e \notin DOMAIN tracker
                THEN ret'.err = ErrUnavailable /\ tracker' = tracker
                ELSE IF \E j \in DOMAIN tracker : j # e /\ tracker[j].latest_commit = c
                THEN ret'.err = ErrIntegrity /\ tracker' = tracker
                ELSE /\ ret'.err = Ok
                     /\ tracker'[e].latest_commit = c
                     /\ tracker'[e].status = tracker[e].status
                     /\ tracker'[e].reviewer_id = tracker[e].reviewer_id
                     /\ tracker'[e].user_id = tracker[e].user_id
                     /\ \A j \in DOMAIN tracker : j # e => tracker'[j] = tracker[j]]_vars

\* an approved entry was given a new commit and is still approved, its reviewer kept
C11_Witness ==
    /\ ret.op = "UpdateCommit"
    /\ ret.err = Ok
    /\ tracker[ret.entry_id].status = "Approved"
    /\ tracker[ret.entry_id].reviewer_id # None
    /\ tracker[ret.entry_id].latest_commit # tracker[ret.entry_id].log[1].commit

\* C16: when every reviewer record (if there is any) belongs to the entry's
\* trainee, select_reviewer fails with "No reviewer available" instead of
\* returning a reviewer, and select_reviewer never changes a table.
C16_NoReviewerAvailable ==
    [][ret'.op = "SelectReviewer" =>
          /\ tracker' = tracker
          /\ reviewers' = reviewers
          /\ (\A r \in DOMAIN reviewers :
                 reviewers[r].user_id = tracker[ret'.entry_id].user_id)
                => ret'.err = ErrNoReviewerAvailable]_vars

\* the selection failed on a table whose only reviewer records are the trainee's
C16_Witness ==
    /\ ret.op = "SelectReviewer"
    /\ ret.err = ErrNoReviewerAvailable
    /\ Len(reviewers) >= 1

\* the selection failed on an empty reviewers table
C16_WitnessEmpty ==
    /\ ret.op = "SelectReviewer"
    /\ ret.err = ErrNoReviewerAvailable
    /\ Len(reviewers) = 0

\* the errors of Approve in the order the claim gives to its preconditions
ApproveOrder ==
    << ErrSelfReview, ErrUnavailable, ErrNoReviewerAssigned,
       ErrNotUnderReview, ErrChecksFailed, ErrReviewerMismatch >>

\* precondition k of ApproveOrder is violated by the call on the current table
PreconditionViolated(k, t, r, n, a, passed) ==
    LET i == get_assessment_tracker_entry(tracker, Users[t].id, Assessments[a].id)
    IN  CASE k = 1 -> reviewers[r].user_id = Users[t].id
          [] k = 2 -> i = 0
          [] k = 3 -> i # 0 /\ tracker[i].reviewer_id = None
          [] k = 4 -> i # 0 /\ tracker[i].status # "Under review"
          [] k = 5 -> ~passed
          [] k = 6 -> i # 0 /\ tracker[i].reviewer_id # None /\ AssignedUsername(i) # n

\* C17: Approve reports the earliest violated precondition in the order
\* SelfReview, NotFound, NoReviewerAssigned, NotUnderReview, ChecksFailed,
\* ReviewerMismatch, and succeeds only when none is violated.
C17_FirstViolatedReported ==
    [][ret'.op = "Approve" =>
       \A t \in DOMAIN Users, r \in DOMAIN reviewers, n \in Usernames,
          a \in DOMAIN Assessments, passed \in BOOLEAN :
          approve_assessment(Users[t], reviewers[r], n, Assessments[a], passed)
             => LET bad == {k \in DOMAIN ApproveOrder :
                               PreconditionViolated(k, t, r, n, a, passed)}
                IN  IF bad = {} THEN ret'.err = Ok
                    ELSE ret'.err = ApproveOrder[First(bad)]]_vars

\* Approve on an Initiated entry without reviewer (two preconditions violated)
\* reported the missing reviewer
C17_Witness ==
    /\ ret.op = "Approve"
    /\ ret.err = ErrNoReviewerAssigned
    /\ tracker[ret.entry_id].status = "Initiated"

\* C18: every record of every log has the keys status, timestamp and commit.
C18_LogRecordKeys ==
    \A i \in DOMAIN tracker :
       \A k \in DOMAIN tracker[i].log :
          {"status", "timestamp", "commit"} \subseteq DOMAIN tracker[i].log[k]

\* ==== credential reconciler ================================================
\* ---- values of the external records --------------------------------------
\* a JSON string and a JSON number of a badge record, and a Python datetime
PyString(x) == [t |-> "str", s |-> x]
PyInt(x) == [t |-> "int", s |-> x]
PyDatetime(x) == [t |-> "datetime", s |-> x]

\* str(v)
PyStr(v) == PyString(v.s)

\* datetime.strptime(v, "%Y-%m-%dT%H:%M:%S.%fZ"): defined on the strings of
\* that format, ValueError elsewhere
StrptimeFraction ==
    [x \in {"2022-05-01T10:00:00.5Z"} |-> "2022-05-01 10:00:00.500000"]

\* datetime.strptime(v, "%Y-%m-%dT%H:%M:%SZ")
StrptimeSeconds ==
    [x \in {"2022-05-01T10:00:00Z"} |-> "2022-05-01 10:00:00"]

\* one field of a badge record as sync_badges stores it: str(v), then the
\* datetime of the first format that parses it, else the string
ToField(v) ==
    LET x == PyStr(v).s
    IN  IF x \in DOMAIN StrptimeFraction THEN PyDatetime(StrptimeFraction[x])
        ELSE IF x \in DOMAIN StrptimeSeconds THEN PyDatetime(StrptimeSeconds[x])
        ELSE PyStr(v)

\* fields = {k: str(v) for k, v in badge.items()} after the datetime loop
Fields(badge) ==
    [k \in DOMAIN badge |-> ToField(badge[k])]

\* ---- the external catalog ------------------------------------------------
BadgePython ==
    [entityId |-> PyString("b1"), name |-> PyString("Python I"),
     createdAt |-> PyString("2022-05-01T10:00:00Z"), version |-> PyInt("2")]

\* the badge b1 after it was renamed in the catalog
BadgeRenamed ==
    [entityId |-> PyString("b1"), name |-> PyString("Python II"),
     createdAt |-> PyString("2022-05-01T10:00:00Z"), version |-> PyInt("2")]

\* another badge that carries the name of b1
BadgeSameName ==
    [entityId |-> PyString("b2"), name |-> PyString("Python I"),
     createdAt |-> PyString("2022-05-01T10:00:00.5Z")]

\* a badge named after the day it was issued
BadgeDated ==
    [entityId |-> PyString("b3"), name |-> PyString("2022-05-01T10:00:00Z")]

\* a record without a name
BadgeNameless ==
    [entityId |-> PyString("b4")]

BadgeRecords ==
    {BadgePython, BadgeRenamed, BadgeSameName, BadgeDated, BadgeNameless}

MaxCatalog == 2

\* the results the catalog client may return: at most MaxCatalog records,
\* none of them twice
Catalogs ==
    UNION { {c \in [1..n -> BadgeRecords] : \A i, j \in 1..n : c[i] = c[j] => i = j}
            : n \in 0..MaxCatalog }

\* ---- sync_badges ---------------------------------------------------------
ErrFetch == "catalog request failed"
ErrKeyName == "'name'"

\* db.query(models.Badges).filter_by(name=badge['name']): the rows whose name
\* column equals the name of the record as the catalog sent it
NameHits(bs, badge) ==
    {i \in DOMAIN bs : bs[i].name = badge.name}

\* current_badge.update(values=fields) on one row
UpdateRow(row, fields) ==
    [k \in (DOMAIN row) \cup (DOMAIN fields) |->
        IF k \in DOMAIN fields THEN fields[k] ELSE row[k]]

\* the loop of sync_badges from record k on, bs the table committed so far:
\* each record is committed by its own db.commit(), so the db.rollback() of
\* the handler finds nothing to undo
RECURSIVE SyncLoop(_, _, _)
SyncLoop(bs, cat, k) ==
    IF k > Len(cat) THEN [err |-> Ok, badges |-> bs]
    ELSE IF "name" \notin DOMAIN cat[k] THEN [err |-> ErrKeyName, badges |-> bs]
    ELSE LET hits == NameHits(bs, cat[k])
             next == IF hits = {} THEN Append(bs, Fields(cat[k]))
                     ELSE [i \in DOMAIN bs |->
                             IF i \in hits THEN UpdateRow(bs[i], Fields(cat[k]))
                             ELSE bs[i]]
         IN  SyncLoop(next, cat, k + 1)

\* sync_badges: its exception (Ok when it returns) and the badges table it leaves
SyncOutcome(bs, cat, fetched) ==
    IF ~fetched THEN [err |-> ErrFetch, badges |-> bs]
    ELSE SyncLoop(bs, cat, 1)

sync_badges(fetched) ==
    LET out == SyncOutcome(badges, catalog, fetched)
    IN  /\ now < MaxClock
        /\ now' = now + 1
        /\ badges' = out.badges
        /\ ret' = [op |-> "SyncCatalog", err |-> out.err, entry_id |-> 0]
        /\ UNCHANGED <<catalog, assertions>>

SyncCatalog ==
    \E fetched \in BOOLEAN :
        sync_badges(fetched) /\ UNCHANGED <<reviewers, tracker, done, pending>>

\* the external service replaces its catalog
CatalogChange ==
    \E c \in Catalogs \ {catalog} :
        /\ catalog' = c
        /\ ret' = [op |-> "CatalogChange", err |-> Ok, entry_id |-> 0]
        /\ UNCHANGED <<reviewers, tracker, now, done, badges, assertions, pending>>

SyncNext ==
    \/ CatalogChange
    \/ SyncCatalog

SpecSync == Init /\ [][SyncNext]_vars

\* ---- properties of the catalog sync ---------------------------------------
\* C12: SyncCatalog is idempotent: a second successful run right after a
\* successful run, the catalog unchanged in between, leaves the badges table
\* as the first run left it.
C12_SyncIdempotent ==
    [][(/\ ret.op = "SyncCatalog" /\ ret.err = Ok
        /\ ret'.op = "SyncCatalog" /\ ret'.err = Ok
        /\ catalog' = catalog)
          => badges' = badges]_vars

\* C13: SyncCatalog is all-or-nothing: a run that raises leaves the badges
\* table as it was before the call.
C13_SyncAllOrNothing ==
    [][(ret'.op = "SyncCatalog" /\ ret'.err # Ok) => badges' = badges]_vars

\* the records of the catalog carry pairwise different external ids
DistinctIds(cat) ==
    \A i, j \in DOMAIN cat : cat[i].entityId = cat[j].entityId => i = j

\* C19: after a successful SyncCatalog of a catalog of pairwise different
\* external ids, every record has exactly one badge of its external id, and
\* that badge carries the fields of the record.
C19_UpsertByExternalId ==
    (ret.op = "SyncCatalog" /\ ret.err = Ok /\ DistinctIds(catalog))
       => \A k \in DOMAIN catalog :
             LET rows == {i \in DOMAIN badges :
                             badges[i].entityId = ToField(catalog[k].entityId)}
             IN  /\ Cardinality(rows) = 1
                 /\ \A i \in rows : \A f \in DOMAIN catalog[k] :
                       badges[i][f] = ToField(catalog[k][f])

\* ---- add_assertion -------------------------------------------------------
\* str() of the AttributeError badge.name raises when no badge was found
ErrBadgeNotFound == "'NoneType' object has no attribute 'name'"

\* the assertion payloads of the external service: one of badge class b1,
\* one of a badge class no catalog lists
AssertionPayloads ==
    { [entityId |-> "a1", badgeclass |-> "b1"],
      [entityId |-> "a2", badgeclass |-> "b9"] }

\* db.query(models.Badges).filter_by(entityId=assertion['badgeclass']).first()
get_badge_by_entityId(bs, badgeclass) ==
    First({i \in DOMAIN bs : bs[i].entityId = PyString(badgeclass)})

\* utils.wrangle_assertion: the stored fields of an assertion
wrangle_assertion(assertion, badge_name) ==
    [entityId |-> assertion.entityId,
     badgeclass |-> assertion.badgeclass,
     badge_name |-> badge_name]

\* variant: the catalog is synced before every lookup
AddOutcome_alwaysSync(bs, as, cat, fetched, entry_id, assertion) ==
    LET sync == SyncOutcome(bs, cat, fetched)
        found == get_badge_by_entityId(sync.badges, assertion.badgeclass)
    IN  IF sync.err # Ok
        THEN [err |-> sync.err, badges |-> sync.badges, assertions |-> as, syncs |-> 1]
        ELSE IF found = 0
        THEN [err |-> ErrBadgeNotFound, badges |-> sync.badges,
              assertions |-> as, syncs |-> 1]
        ELSE [err |-> Ok, badges |-> sync.badges, syncs |-> 1,
              assertions |->
                 Append(as, DictSet(wrangle_assertion(assertion, sync.badges[found].name),
                                    "assessment_tracker_id", entry_id))]

\* add_assertion: its exception (Ok when it returns True), the tables it leaves
\* and the number of sync_badges calls it made
AddOutcome(bs, as, cat, fetched, entry_id, assertion) ==
    LET badge == get_badge_by_entityId(bs, assertion.badgeclass)
        sync == SyncOutcome(bs, cat, fetched)
        again == get_badge_by_entityId(sync.badges, assertion.badgeclass)
    IN  IF badge # 0
        THEN [err |-> Ok, badges |-> bs, syncs |-> 0,
              assertions |->
                 Append(as, DictSet(wrangle_assertion(assertion, bs[badge].name),
                                    "assessment_tracker_id", entry_id))]
        ELSE IF sync.err # Ok
        THEN [err |-> sync.err, badges |-> sync.badges, assertions |-> as, syncs |-> 1]
        ELSE IF again = 0
        THEN [err |-> ErrBadgeNotFound, badges |-> sync.badges,
              assertions |-> as, syncs |-> 1]
        ELSE [err |-> Ok, badges |-> sync.badges, syncs |-> 1,
              assertions |->
                 Append(as, DictSet(wrangle_assertion(assertion, sync.badges[again].name),
                                    "assessment_tracker_id", entry_id))]

add_assertion(fetched, entry_id, assertion) ==
    LET out == AddOutcome(badges, assertions, catalog, fetched, entry_id, assertion)
    IN  /\ now < MaxClock
        /\ now' = now + 1
        /\ badges' = out.badges
        /\ assertions' = out.assertions
        /\ ret' = [op |-> "AddAssertion", err |-> out.err, entry_id |-> entry_id,
                   syncs |-> out.syncs]
        /\ UNCHANGED catalog

AddAssertion ==
    \E fetched \in BOOLEAN, e \in DOMAIN tracker, a \in AssertionPayloads :
        add_assertion(fetched, e, a) /\ UNCHANGED <<reviewers, tracker, done, pending>>

\* the catalogs add_assertion tells apart: made of the badge b1, of a badge
\* that is not b1 and of the record whose sync raises
AssertCatalogs ==
    {c \in Catalogs :
        \A k \in DOMAIN c : c[k] \in {BadgePython, BadgeSameName, BadgeNameless}}

\* assertions are attached while the external catalog stays as it is: each
\* of these catalogs is a starting point
AssertInit ==
    /\ reviewers = Reviewers
    /\ tracker = <<>>
    /\ now = 0
    /\ ret = [op |-> "start", err |-> Ok, entry_id |-> 0]
    /\ done = <<>>
    /\ catalog \in AssertCatalogs
    /\ badges = <<>>
    /\ assertions = <<>>
    /\ pending = <<>>

AssertNext ==
    \/ Initiate
    \/ SyncCatalog
    \/ AddAssertion

SpecAssert == AssertInit /\ [][AssertNext]_vars

\* assertions are attached while entries are reviewed and approved, the
\* catalog listing the badge b1
AttachInit ==
    /\ reviewers = Reviewers
    /\ tracker = <<>>
    /\ now = 0
    /\ ret = [op |-> "start", err |-> Ok, entry_id |-> 0]
    /\ done = <<>>
    /\ catalog = <<BadgePython>>
    /\ badges = <<>>
    /\ assertions = <<>>
    /\ pending = <<>>

AttachNext ==
    \/ Initiate
    \/ AssignReviewer
    \/ Approve
    \/ AddAssertion

SpecAttach == AttachInit /\ [][AttachNext]_vars

\* ---- properties of add_assertion ------------------------------------------
\* the catalog is fetched and each of its records has a name: sync_badges raises nothing
SyncRuns(cat, fetched) ==
    fetched /\ \A k \in DOMAIN cat : "name" \in DOMAIN cat[k]

\* C14: AddAssertion whose badge class is not in the badges table runs
\* SyncCatalog exactly once and looks the badge up again: when the badge is
\* still missing after the sync the call fails with BadgeNotFound, and no
\* failing call persists an assertion; a call that succeeds adds one row of
\* the entry and of the name of the badge found. AddAssertion whose badge
\* class is in the table at the first lookup runs no SyncCatalog and leaves
\* the badges table alone.
C14_OneSyncRetry ==
    [][ret'.op = "AddAssertion" =>
       \A fetched \in BOOLEAN, e \in DOMAIN tracker, a \in AssertionPayloads :
          add_assertion(fetched, e, a)
             => LET before == get_badge_by_entityId(badges, a.badgeclass)
                    after == get_badge_by_entityId(badges', a.badgeclass)
                IN  /\ (before # 0) => (/\ ret'.syncs = 0
                                        /\ badges' = badges
                                        /\ ret'.err = Ok)
                    /\ (before = 0) => (ret'.syncs = 1)
                    /\ (before = 0 /\ after = 0 /\ SyncRuns(catalog, fetched))
                          => (ret'.err = ErrBadgeNotFound)
                    /\ (after = 0) => (ret'.err # Ok)
                    /\ (ret'.err # Ok) => (assertions' = assertions)
                    /\ (ret'.err = Ok)
                          => (/\ Len(assertions') = Len(assertions) + 1
                              /\ SubSeq(assertions', 1, Len(assertions)) = assertions
                              /\ assertions'[Len(assertions')].assessment_tracker_id = e
                              /\ assertions'[Len(assertions')].badge_name
                                    = badges'[after].name)]_vars

\* an AddAssertion of a badge class no catalog lists synced once and failed
C14_Witness ==
    /\ ret.op = "AddAssertion"
    /\ ret.syncs = 1
    /\ ret.err = ErrBadgeNotFound
    /\ badges # <<>>

\* an AddAssertion found its badge only after the sync it ran
C14_WitnessRetry ==
    /\ ret.op = "AddAssertion"
    /\ ret.syncs = 1
    /\ ret.err = Ok

\* an AddAssertion found its badge at the first lookup
C14_WitnessLocal ==
    /\ ret.op = "AddAssertion"
    /\ ret.syncs = 0

\* C15: every assertion references an entry whose status is Approved, and no
\* entry has more than one assertion.
C15_OncePerApprovedEntry ==
    /\ \A k \in DOMAIN assertions :
          tracker[assertions[k].assessment_tracker_id].status = "Approved"
    /\ \A j, k \in DOMAIN assertions :
          assertions[j].assessment_tracker_id = assertions[k].assessment_tracker_id
             => j = k

\* ==== concurrent requests =================================================
\* Each request runs the handlers on a session of its own; what one session
\* commits is visible to the others from that commit on. assign_reviewer
\* commits twice, so a request can commit between its commits.

\* assign_reviewer up to its first db.commit(): reviewer_id, status and
\* last_updated are written
AssignWrite(entry_id, reviewer_info) ==
    /\ pending = <<>>
    /\ now < MaxClock
    /\ now' = now + 1
    /\ tracker' = [tracker EXCEPT ![entry_id].reviewer_id = reviewer_info.reviewer_id,
                                  ![entry_id].status = "Under review",
                                  ![entry_id].last_updated = now + 1]
    /\ done' = [done EXCEPT ![entry_id] = Append(@, "AssignReviewer")]
    /\ pending' = <<[pc |-> "read", entry_id |-> entry_id,
                     reviewer_info |-> reviewer_info]>>
    /\ UNCHANGED <<reviewers, ret>>

\* the session loads the entry again after its commit expired it: the
\* arguments of update_assessment_log and the log it copies are those of
\* the row as committed at this moment
AssignRead ==
    /\ pending # <<>>
    /\ pending[1].pc = "read"
    /\ pending' = <<[pc |-> "log", entry_id |-> pending[1].entry_id,
                     reviewer_info |-> pending[1].reviewer_info,
                     latest_commit |-> tracker[pending[1].entry_id].latest_commit,
                     logs |-> tracker[pending[1].entry_id].log]>>
    /\ UNCHANGED <<reviewers, tracker, now, ret, done>>

\* update_assessment_log as assign_reviewer calls it, up to its db.commit():
\* the copied log with the record appended and last_updated are written;
\* latest_commit is assigned the value the session loaded, which is no change
AssignLog ==
    /\ pending # <<>>
    /\ pending[1].pc = "log"
    /\ LET e == pending[1].entry_id
           rec == DictSet(DictSet(pending[1].reviewer_info,
                                  "commit", pending[1].latest_commit),
                          "timestamp", Str(now))
       IN  /\ tracker' = [tracker EXCEPT ![e].last_updated = now,
                                         ![e].log = Append(pending[1].logs, rec)]
           /\ ret' = [op |-> "AssignReviewer", err |-> Ok, entry_id |-> e]
    /\ pending' = <<>>
    /\ UNCHANGED <<reviewers, now, done>>

AssignReviewerBegin ==
    \E e \in DOMAIN tracker, r \in DOMAIN reviewers :
        AssignWrite(e, ReviewerInfo(reviewers[r])) /\ UNCHANGED credentials

AssignReviewerReload ==
    AssignRead /\ UNCHANGED credentials

AssignReviewerEnd ==
    AssignLog /\ UNCHANGED credentials

ConcNext ==
    \/ Initiate
    \/ AssignReviewerBegin
    \/ AssignReviewerReload
    \/ AssignReviewerEnd
    \/ UpdateCommit
    \/ Approve

SpecConc == Init /\ [][ConcNext]_vars

\* C20: no request commits between the two commits of AssignReviewer, so
\* whenever no AssignReviewer is between its commits, the log of every entry
\* holds one record per successful call, in the order in which the calls
\* committed their change of the entry.
C20_LogInCommitOrder ==
    pending = <<>>
       => \A i \in DOMAIN tracker :
             /\ Len(tracker[i].log) = Len(done[i])
             /\ \A k \in DOMAIN done[i] : LogKind(tracker[i].log[k]) = done[i][k]

\* ==== status, reviewer and credit ==========================================
\* C22: an entry has status Initiated if and only if its reviewer_id is null
\* (an entry Under review or Approved has a reviewer), and no call puts a
\* reviewer_id back to null.
C22_InitiatedIffNoReviewer ==
    [][\A i \in DOMAIN tracker' :
          /\ (tracker'[i].status = "Initiated") <=> (tracker'[i].reviewer_id = None)
          /\ (i \in DOMAIN tracker /\ tracker[i].reviewer_id # None)
                => tracker'[i].reviewer_id # None]_vars

\* one entry is still Initiated without reviewer while another is Approved
\* with the reviewer it was assigned
C22_Witness ==
    \E i, j \in DOMAIN tracker :
       /\ tracker[i].status = "Initiated" /\ tracker[i].reviewer_id = None
       /\ tracker[j].status = "Approved" /\ tracker[j].reviewer_id # None
       /\ done[j] = <<"Initiate", "AssignReviewer", "Approve">>

\* ---- approvals when a user holds several reviewer records -----------------
\* the reviewers table in which bob holds two reviewer records
ApproveInit ==
    /\ reviewers = Append(Reviewers, [id |-> Len(Reviewers) + 1, user_id |-> 2])
    /\ tracker = <<>>
    /\ now = 0
    /\ ret = [op |-> "start", err |-> Ok, entry_id |-> 0]
    /\ done = <<>>
    /\ catalog = <<>>
    /\ badges = <<>>
    /\ assertions = <<>>
    /\ pending = <<>>

ApproveNext ==
    \/ Initiate
    \/ AssignReviewer
    \/ Approve

SpecApprove == ApproveInit /\ [][ApproveNext]_vars

\* C23: after a successful Approve of an entry whose recorded reviewer is not
\* the trainee, the Reviewer of the appended Approved record is the entry's
\* recorded reviewer_id.
C23_CreditedIsAssigned ==
    (/\ ret.op = "Approve"
     /\ ret.err = Ok
     /\ reviewers[get_reviewer_by_id(reviewers, tracker[ret.entry_id].reviewer_id)].user_id
           # tracker[ret.entry_id].user_id)
       => LET log == tracker[ret.entry_id].log
          IN  log[Len(log)].Reviewer = tracker[ret.entry_id].reviewer_id

\* ==== concurrent initiations ===============================================
\* the number of init_assessment_tracker calls in flight at once
MaxInFlight == 2

\* sequence q without its k-th element
Remove(q, k) ==
    [i \in 1..(Len(q) - 1) |-> IF i < k THEN q[i] ELSE q[i + 1]]

\* init_assessment_tracker up to the creation of the entry: the assessment and
\* the entry are looked up; the call ends here when the assessment is missing
\* or the entry is found, and goes on to create the entry otherwise
InitCheck(user_id, assessment_name, latest_commit) ==
    LET a == get_assessment_by_name(assessment_name)
        found == get_assessment_tracker_entry(tracker, user_id, Assessments[a].id)
    IN  /\ Len(pending) < MaxInFlight
        /\ IF a = 0
           THEN /\ ret' = [op |-> "Initiate", err |-> ErrAssessmentMissing, entry_id |-> 0]
                /\ UNCHANGED pending
           ELSE IF found # 0
           THEN /\ ret' = [op |-> "Initiate", err |-> ErrAlreadyExists, entry_id |-> 0]
                /\ UNCHANGED pending
           ELSE /\ pending' = Append(pending, [pc |-> "create",
                                               user_id |-> user_id,
                                               assessment_id |-> Assessments[a].id,
                                               latest_commit |-> latest_commit])
                /\ UNCHANGED ret
        /\ UNCHANGED <<reviewers, tracker, now, done>>

\* the rest of the k-th call in flight: the entry is built, added and
\* committed; the store refuses the commit when another entry carries the
\* same latest_commit
InitCreate(k) ==
    LET call == pending[k]
        added == Append(tracker, NewEntry(call.user_id, call.assessment_id,
                                          call.latest_commit, now + 1))
    IN  /\ call.pc = "create"
        /\ pending' = Remove(pending, k)
        /\ IF UniqueLatestCommit(added)
           THEN /\ now < MaxClock
                /\ now' = now + 1
                /\ tracker' = added
                /\ done' = Append(done, <<"Initiate">>)
                /\ ret' = [op |-> "Initiate", err |-> Ok, entry_id |-> Len(added)]
           ELSE /\ ret' = [op |-> "Initiate", err |-> ErrIntegrity, entry_id |-> 0]
                /\ UNCHANGED <<tracker, now, done>>
        /\ UNCHANGED reviewers

InitiateBegin ==
    \E u \in UserIds, n \in AssessmentNames, c \in Commits :
        InitCheck(u, n, c) /\ UNCHANGED credentials

InitiateEnd ==
    \E k \in DOMAIN pending :
        InitCreate(k) /\ UNCHANGED credentials

InitNext ==
    \/ InitiateBegin
    \/ InitiateEnd

SpecInit == Init /\ [][InitNext]_vars

\* C21: with Initiate calls of the same (user, assessment) pair in flight
\* together, the table never holds more than one entry of the pair: at most
\* one of the calls succeeds.
C21_OneEntryPerPairConcurrent ==
    \A i, j \in DOMAIN tracker :
       (/\ tracker[i].user_id = tracker[j].user_id
        /\ tracker[i].assessment_id = tracker[j].assessment_id)
          => i = j
====
